---- MODULE Spec2Model ----
(***************************************************************************)
(* Model of Beginners_guide/04_Loading_data.ipynb: a Jupyter kernel that   *)
(* runs the notebook's code cells.  The kernel state is the namespace the  *)
(* cells bind (dc, query, ds, ds_rgb, ...), the Datasets returned by       *)
(* dc.load() and the outputs of the running cell.  dc.load() belongs to    *)
(* the datacube library; what it returns is modelled from the calls the    *)
(* notebook makes, the outputs recorded under them and the notebook's own  *)
(* description of the parameters.                                          *)
(*                                                                         *)
(* Units.  Degrees are written in tenths (153.3 -> 1533), metres of a      *)
(* query as metres, printed coordinates in units of 100 m at the four      *)
(* significant digits the notebook prints (2.067e+06 -> 20670), dates as   *)
(* tuples <<year>>, <<year, month>> or <<year, month, day>>.               *)
(***************************************************************************)
EXTENDS Integers, Sequences, FiniteSets, TLC

\* Largest number of Datasets a kernel session holds
MaxLoads == 3

----------------------------------------------------------------------------
(* Values that appear in the cells                                         *)

WGS84 == "EPSG:4326"
Albers == "EPSG:3577"
UTM56S == "EPSG:32756"
LS8 == "ls8_nbart_geomedian_annual"
LS7 == "ls7_nbart_geomedian_annual"

AllBands == <<"blue", "green", "red", "nir", "swir1", "swir2">>

\* What the notebook shows of the two products: the measurements, the CRS
\* and pixel size a load returns when none is asked for, the nodata value
\* and the years that hold data.  The outputs show the native grid, the
\* nodata value and the years 2013-2017 for Landsat 8 only; Landsat 7 is
\* shown for 2015 at 250 m in EPSG:32756 and is taken to be laid out like
\* Landsat 8, both being annual geomedians of one collection.
Products ==
    [p \in {LS8, LS7} |->
        [measurements |-> AllBands,
         crs |-> Albers,
         resolution |-> <<-25, 25>>,
         nodata |-> -999,
         units |-> 1,
         years |-> {2013, 2014, 2015, 2016, 2017}]]

Has(q, k) == k \in DOMAIN q

\* {**a, **b}: the keyword arguments of a call
Merge(a, b) ==
    [k \in (DOMAIN a) \cup (DOMAIN b) |-> IF k \in DOMAIN b THEN b[k] ELSE a[k]]

Range(s) == {s[i] : i \in 1..Len(s)}

Abs(n) == IF n < 0 THEN -n ELSE n

----------------------------------------------------------------------------
(* dc.load(): time                                                         *)

\* A partial date read as the first instant of its period
DateFloor(d) ==
    <<d[1], IF Len(d) >= 2 THEN d[2] ELSE 1, IF Len(d) >= 3 THEN d[3] ELSE 1>>

\* A partial date read as the last day of its period
DateCeil(d) ==
    <<d[1], IF Len(d) >= 2 THEN d[2] ELSE 12, IF Len(d) >= 3 THEN d[3] ELSE 31>>

DateLeq(a, b) ==
    \/ a[1] < b[1]
    \/ a[1] = b[1] /\ a[2] < b[2]
    \/ a[1] = b[1] /\ a[2] = b[2] /\ a[3] <= b[3]

\* Variant: the end of the range is read as the first instant of its
\* period and is itself left out
InTimeRangeEndExclusive(year, t) ==
    /\ DateLeq(DateFloor(t[1]), <<year, 1, 1>>)
    /\ DateLeq(<<year, 1, 1>>, DateFloor(t[2]))
    /\ <<year, 1, 1>> # DateFloor(t[2])

\* The annual products stamp each year's composite with 1 January
InTimeRange(year, t) ==
    /\ DateLeq(DateFloor(t[1]), <<year, 1, 1>>)
    /\ DateLeq(<<year, 1, 1>>, DateCeil(t[2]))

RECURSIVE SortedYears(_)
SortedYears(S) ==
    IF S = {} THEN <<>>
    ELSE LET m == CHOOSE y \in S : \A z \in S : y <= z
         IN <<m>> \o SortedYears(S \ {m})

\* Variant: the time range is not applied, every year of the product is
\* returned
TimeStepsAllYears(p, t) == SortedYears(Products[p].years)

\* The time coordinate of a load of product p over the time range t
TimeSteps(p, t) == SortedYears({y \in Products[p].years : InTimeRange(y, t)})

----------------------------------------------------------------------------
(* dc.load(): space                                                        *)

\* Variant: output_crs is ignored, the pixels stay in the product's CRS
OutputCRSIgnored(q) == Products[q.product].crs

\* The CRS of the returned pixels
OutputCRS(q) == IF Has(q, "output_crs") THEN q.output_crs ELSE Products[q.product].crs

\* Variant: resolution is applied only together with output_crs
OutputResolutionNeedsCRS(q) ==
    IF Has(q, "resolution") /\ Has(q, "output_crs") THEN q.resolution
    ELSE Products[q.product].resolution

OutputResolution(q) ==
    IF Has(q, "resolution") THEN q.resolution ELSE Products[q.product].resolution

\* Variant: bounds without crs are read in the CRS of the output
QueryCRSFromOutput(q) == IF Has(q, "crs") THEN q.crs ELSE OutputCRS(q)

\* The reference system the x and y of a query are read in
QueryCRS(q) == IF Has(q, "crs") THEN q.crs ELSE WGS84

\* The place on the ground that the bounds x, y name when read in crs.  The
\* notebook queries one area of Moreton Bay in degrees and a second,
\* narrower one in Albers metres; bounds read in another system fall
\* where the products hold no data.
Locate(x, y, crs) ==
    IF crs = WGS84 /\ x = <<1533, 1534>> /\ y = <<-275, -276>>
    THEN "MoretonBay"
    ELSE IF crs = Albers /\ x = <<2069310, 2077064>> /\ y = <<-3155823, -3168513>>
    THEN "MoretonBayAlbers"
    ELSE "NoData"

EmptyGrid == [nx |-> 0, ny |-> 0, x |-> <<0, 0>>, y |-> <<0, 0>>]

\* The pixel grid that covers a place in an output CRS at a pixel size, as
\* the recorded outputs print it: pixel counts and first/last coordinate.
Grid(place, crs, res) ==
    IF place = "MoretonBay" /\ crs = Albers /\ res = <<-25, 25>>
    THEN [nx |-> 461, ny |-> 508, x |-> <<20670, 20790>>, y |-> <<-31560, -31680>>]
    ELSE IF place = "MoretonBayAlbers" /\ crs = Albers /\ res = <<-25, 25>>
    THEN [nx |-> 311, ny |-> 509, x |-> <<20690, 20770>>, y |-> <<-31560, -31690>>]
    ELSE IF place = "MoretonBay" /\ crs = UTM56S /\ res = <<-250, 250>>
    THEN [nx |-> 40, ny |-> 45, x |-> <<5296, 5394>>, y |-> <<69580, 69470>>]
    ELSE IF place = "MoretonBay" /\ crs = Albers /\ res = <<-250, 250>>
    THEN [nx |-> 47, ny |-> 51, x |-> <<20670, 20790>>, y |-> <<-31560, -31680>>]
    ELSE EmptyGrid


----------------------------------------------------------------------------
(* dc.load(): measurements, resampling and pixel values                    *)

\* Variant: the measurements list is ignored
DataVarsAll(q) == Products[q.product].measurements

\* Variant: nothing is loaded unless measurements are listed
DataVarsListedOnly(q) == IF Has(q, "measurements") THEN q.measurements ELSE <<>>

\* The data variables of a load, in the order they are returned
DataVars(q) ==
    IF Has(q, "measurements") THEN q.measurements ELSE Products[q.product].measurements

\* Variant: a mapping without an entry for the band falls back to the
\* default method, the wildcard entry is not looked up
ResamplingNoWildcard(q, band) ==
    IF ~Has(q, "resampling") THEN "nearest"
    ELSE IF Has(q.resampling, "scalar") THEN q.resampling.scalar
    ELSE IF band \in DOMAIN q.resampling.bands THEN q.resampling.bands[band]
    ELSE "nearest"

\* Variant: without a resampling argument the bands are averaged
ResamplingDefaultAverage(q, band) ==
    IF ~Has(q, "resampling") THEN "average"
    ELSE IF Has(q.resampling, "scalar") THEN q.resampling.scalar
    ELSE IF band \in DOMAIN q.resampling.bands THEN q.resampling.bands[band]
    ELSE IF "*" \in DOMAIN q.resampling.bands THEN q.resampling.bands["*"]
    ELSE "nearest"

\* A resampling argument is [scalar |-> method] for resampling="average"
\* and [bands |-> mapping] for resampling={"red": "nearest", "*": "average"}
ResamplingFor(q, band) ==
    IF ~Has(q, "resampling") THEN "nearest"
    ELSE IF Has(q.resampling, "scalar") THEN q.resampling.scalar
    ELSE IF band \in DOMAIN q.resampling.bands THEN q.resampling.bands[band]
    ELSE IF "*" \in DOMAIN q.resampling.bands THEN q.resampling.bands["*"]
    ELSE "nearest"

Unrecorded == <<>>

Bands6(b, g, r, n, s1, s2) ==
    [blue |-> b, green |-> g, red |-> r, nir |-> n, swir1 |-> s1, swir2 |-> s2]

\* The first three pixel values of each band, as the outputs print them,
\* for the first time step of a load read with nearest-neighbour resampling
NearestPixels(product, place, crs, res, year) ==
    IF product = LS8 /\ place = "MoretonBay" /\ crs = Albers /\ res = <<-25, 25>> /\ year = 2015
    THEN Bands6(<<491, 490, 489>>, <<534, 538, 538>>, <<248, 252, 252>>,
                <<108, 106, 105>>, <<64, 65, 62>>, <<53, 53, 51>>)
    ELSE IF product = LS8 /\ place = "MoretonBayAlbers" /\ crs = Albers /\ res = <<-25, 25>> /\ year = 2015
    THEN Bands6(<<470, 462, 464>>, <<493, 480, 481>>, <<223, 211, 212>>,
                <<87, 84, 83>>, <<53, 47, 47>>, <<44, 40, 38>>)
    ELSE IF product = LS8 /\ place = "MoretonBay" /\ crs = UTM56S /\ res = <<-250, 250>> /\ year = 2015
    THEN Bands6(<<473, 460, 455>>, <<499, 480, 452>>, <<224, 215, 201>>,
                <<86, 83, 88>>, <<52, 51, 51>>, <<41, 41, 40>>)
    ELSE IF product = LS7 /\ place = "MoretonBay" /\ crs = UTM56S /\ res = <<-250, 250>> /\ year = 2015
    THEN Bands6(<<465, 458, 370>>, <<503, 493, 386>>, <<258, 260, 190>>,
                <<165, 154, 115>>, <<68, 93, 56>>, <<65, 85, 63>>)
    ELSE IF product = LS8 /\ place = "MoretonBay" /\ crs = Albers /\ res = <<-25, 25>> /\ year = 2013
    THEN Bands6(<<516, 517, 523>>, <<552, 554, 565>>, <<268, 273, 282>>,
                <<108, 112, 116>>, <<63, 63, 68>>, <<51, 50, 53>>)
    ELSE Bands6(Unrecorded, Unrecorded, Unrecorded, Unrecorded, Unrecorded, Unrecorded)

\* The same for a load read with average resampling
AveragePixels(product, place, crs, res, year) ==
    IF product = LS8 /\ place = "MoretonBay" /\ crs = Albers /\ res = <<-250, 250>> /\ year = 2015
    THEN Bands6(<<496, 485, 482>>, <<536, 541, 539>>, <<248, 251, 253>>,
                <<109, 97, 87>>, <<67, 55, 48>>, <<55, 44, 36>>)
    ELSE IF product = LS8 /\ place = "MoretonBay" /\ crs = UTM56S /\ res = <<-250, 250>> /\ year = 2015
    THEN Bands6(<<467, 457, 450>>, <<489, 469, 451>>, Unrecorded,
                <<84, 83, 84>>, <<50, 48, 48>>, <<40, 39, 39>>)
    ELSE Bands6(Unrecorded, Unrecorded, Unrecorded, Unrecorded, Unrecorded, Unrecorded)

Pixels(product, geobox, method, year, band) ==
    IF method = "nearest"
    THEN NearestPixels(product, geobox.place, geobox.crs, geobox.resolution, year)[band]
    ELSE IF method = "average"
    THEN AveragePixels(product, geobox.place, geobox.crs, geobox.resolution, year)[band]
    ELSE Unrecorded

----------------------------------------------------------------------------
(* dc.load(): the returned xarray.Dataset                                  *)

\* An entry of the kernel's object store: the keyword arguments of the
\* call, the footprint the load resolved (extent, CRS and pixel size), the
\* resampling each band was read with, and the Dataset handed back.
\* Variant: like copies the extent of the template only, the pixels come
\* in the product's own CRS and pixel size
GeoBoxExtentOnly(q, store) ==
    IF Has(q, "like")
    THEN [place |-> store[q.like].geobox.place,
          crs |-> Products[q.product].crs,
          resolution |-> Products[q.product].resolution]
    ELSE [place |-> Locate(q.x, q.y, QueryCRS(q)),
          crs |-> OutputCRS(q),
          resolution |-> OutputResolution(q)]

GeoBoxOf(q, store) ==
    IF Has(q, "like") THEN store[q.like].geobox
    ELSE [place |-> Locate(q.x, q.y, QueryCRS(q)),
          crs |-> OutputCRS(q),
          resolution |-> OutputResolution(q)]

TimeRangeOf(q, store) ==
    IF Has(q, "like")
    THEN LET t == store[q.like].ds.coords.time
         IN IF t = <<>> THEN << <<0>>, <<0>> >> ELSE << <<t[1]>>, <<t[Len(t)]>> >>
    ELSE q.time

\* Variant: a band keeps the CRS of the product it was read from
DataArrayNativeCRS(q, geobox, grid, steps, band) ==
    [name |-> band,
     dims |-> <<"time", "y", "x">>,
     shape |-> <<Len(steps), grid.ny, grid.nx>>,
     coords |-> [time |-> steps, x |-> grid.x, y |-> grid.y],
     values |-> Pixels(q.product, geobox, ResamplingFor(q, band), steps[1], band),
     attrs |-> [units |-> Products[q.product].units,
                nodata |-> Products[q.product].nodata,
                crs |-> Products[q.product].crs]]

\* The xarray.DataArray of one band
DataArray(q, geobox, grid, steps, band) ==
    [name |-> band,
     dims |-> <<"time", "y", "x">>,
     shape |-> <<Len(steps), grid.ny, grid.nx>>,
     coords |-> [time |-> steps, x |-> grid.x, y |-> grid.y],
     values |-> Pixels(q.product, geobox, ResamplingFor(q, band), steps[1], band),
     attrs |-> [units |-> Products[q.product].units,
                nodata |-> Products[q.product].nodata,
                crs |-> geobox.crs]]

EmptyDataset ==
    [dims |-> [time |-> 0, x |-> 0, y |-> 0],
     coords |-> [time |-> <<>>, x |-> <<0, 0>>, y |-> <<0, 0>>],
     vars |-> <<>>,
     arrays |-> [b \in {} |-> 0],
     attrs |-> [crs |-> "none"]]

\* Variant: the listed measurements are read by position, the k-th name
\* of the list gets the k-th band of the product
DatasetBandsByPosition(q, geobox, grid, steps) ==
    IF steps = <<>> \/ grid = EmptyGrid THEN EmptyDataset
    ELSE [dims |-> [time |-> Len(steps), x |-> grid.nx, y |-> grid.ny],
          coords |-> [time |-> steps, x |-> grid.x, y |-> grid.y],
          vars |-> DataVars(q),
          arrays |-> [b \in Range(DataVars(q)) |->
                         LET k == CHOOSE n \in 1..Len(DataVars(q)) : DataVars(q)[n] = b
                         IN [DataArray(q, geobox, grid, steps,
                                       Products[q.product].measurements[k])
                                EXCEPT !.name = b]],
          attrs |-> [crs |-> geobox.crs]]

Dataset(q, geobox, grid, steps) ==
    IF steps = <<>> \/ grid = EmptyGrid THEN EmptyDataset
    ELSE [dims |-> [time |-> Len(steps), x |-> grid.nx, y |-> grid.ny],
          coords |-> [time |-> steps, x |-> grid.x, y |-> grid.y],
          vars |-> DataVars(q),
          arrays |-> [b \in Range(DataVars(q)) |-> DataArray(q, geobox, grid, steps, b)],
          attrs |-> [crs |-> geobox.crs]]

\* What a call resolves before it reads any pixel: the footprint and the
\* time steps it will read
Plan(q, store) ==
    [geobox |-> GeoBoxOf(q, store),
     steps |-> TimeSteps(q.product, TimeRangeOf(q, store))]

\* The time steps held after the next one has been read
ReadSlice(f) == Append(f.loaded, f.steps[Len(f.loaded) + 1])

\* Variant: with a callback the read loop ends at the first report
FinishedAtFirstReport(f) ==
    IF Has(f.args, "progress_cbk")
    THEN Len(f.loaded) >= 1 \/ Len(f.steps) = 0
    ELSE Len(f.loaded) = Len(f.steps)

\* A call returns when every planned time step has been read
Finished(f) == Len(f.loaded) = Len(f.steps)

\* The object a finished call hands back
Result(f) ==
    [args |-> f.args,
     geobox |-> f.geobox,
     resampling |-> [b \in Range(DataVars(f.args)) |-> ResamplingFor(f.args, b)],
     ds |-> Dataset(f.args, f.geobox,
                    Grid(f.geobox.place, f.geobox.crs, f.geobox.resolution), f.loaded)]

\* Variant: a like load fills the template in place
StoredInPlace(store, f, entry) ==
    IF Has(f.args, "like") THEN [store EXCEPT ![f.args.like] = entry]
    ELSE Append(store, entry)

\* The object store after a call has returned entry
Stored(store, f, entry) == Append(store, entry)

----------------------------------------------------------------------------
(* The code cells, numbered by their execution count                       *)

MoretonBayX == <<1533, 1534>>
MoretonBayY == <<-275, -276>>
Year2015 == << <<2015, 1, 1>>, <<2015, 12, 31>> >>

Query1 == [x |-> MoretonBayX, y |-> MoretonBayY, time |-> Year2015]

Query2 == [x |-> MoretonBayX, y |-> MoretonBayY, time |-> Year2015,
           output_crs |-> UTM56S, resolution |-> <<-250, 250>>]

Query3 == [x |-> MoretonBayX, y |-> MoretonBayY, time |-> << <<2013>>, <<2017>> >>]

NoQuery == [unbound |-> TRUE]

LoadStmt(target, kwargs, unpack, like, cbk) ==
    [op |-> "load", target |-> target, kwargs |-> kwargs, unpack |-> unpack,
     like |-> like, cbk |-> cbk]

PrintStmt(name) == [op |-> "print", name |-> name]

Cells ==
    << \* 1: import datacube; from odc.ui import with_ui_cbk
       << [op |-> "import", name |-> "datacube"],
          [op |-> "import", name |-> "with_ui_cbk"] >>,
       \* 2: dc = datacube.Datacube(app="04_Loading_data")
       << [op |-> "connect"] >>,
       \* 3: ds = dc.load(product, x, y, time); print(ds)
       << LoadStmt("ds", Merge([product |-> LS8], Query1), FALSE, "none", FALSE),
          PrintStmt("ds") >>,
       \* 4: print(ds.nir)
       << [op |-> "print_nir"] >>,
       \* 5: ds_rgb = dc.load(..., measurements=["red", "green", "blue"])
       << LoadStmt("ds_rgb",
                   Merge([product |-> LS8, measurements |-> <<"red", "green", "blue">>],
                         Query1),
                   FALSE, "none", FALSE),
          PrintStmt("ds_rgb") >>,
       \* 6: ds_custom_crs = dc.load(..., crs="EPSG:3577")
       << LoadStmt("ds_custom_crs",
                   [product |-> LS8, time |-> Year2015,
                    x |-> <<2069310, 2077064>>, y |-> <<-3155823, -3168513>>,
                    crs |-> Albers],
                   FALSE, "none", FALSE),
          PrintStmt("ds_custom_crs") >>,
       \* 7: ds_reprojected = dc.load(..., output_crs, resolution)
       << LoadStmt("ds_reprojected", Merge([product |-> LS8], Query2),
                   FALSE, "none", FALSE),
          PrintStmt("ds_reprojected") >>,
       \* 8: ds_averageresampling = dc.load(..., resolution, resampling="average")
       << LoadStmt("ds_averageresampling",
                   Merge([product |-> LS8, resolution |-> <<-250, 250>>,
                          resampling |-> [scalar |-> "average"]], Query1),
                   FALSE, "none", FALSE),
          PrintStmt("ds_averageresampling") >>,
       \* 9: ds_customresampling = dc.load(..., resampling={"red": ..., "*": ...})
       << LoadStmt("ds_customresampling",
                   Merge([product |-> LS8,
                          resampling |-> [bands |-> ("red" :> "nearest") @@ ("*" :> "average")]],
                         Query2),
                   FALSE, "none", FALSE),
          PrintStmt("ds_customresampling") >>,
       \* 10: query = {x, y, time}
       << [op |-> "query", value |-> Query1] >>,
       \* 11: ds = dc.load(product, **query); print(ds)
       << LoadStmt("ds", [product |-> LS8], TRUE, "none", FALSE),
          PrintStmt("ds") >>,
       \* 12: query = {..., output_crs, resolution}; ds_ls8 = dc.load(**query)
       << [op |-> "query", value |-> Query2],
          LoadStmt("ds_ls8", [product |-> LS8], TRUE, "none", FALSE),
          PrintStmt("ds_ls8") >>,
       \* 13: ds_ls7 = dc.load(product="ls7...", **query); print(ds_ls7)
       << LoadStmt("ds_ls7", [product |-> LS7], TRUE, "none", FALSE),
          PrintStmt("ds_ls7") >>,
       \* 14: ds_ls7 = dc.load(product="ls7...", like=ds_ls8); print(ds_ls7)
       << LoadStmt("ds_ls7", [product |-> LS7], FALSE, "ds_ls8", FALSE),
          PrintStmt("ds_ls7") >>,
       \* 15: query = {..., time: ("2013", "2017")}; ds_progress = dc.load(
       \*     progress_cbk=with_ui_cbk(), **query); print(ds_progress)
       << [op |-> "query", value |-> Query3],
          LoadStmt("ds_progress", [product |-> LS8], TRUE, "none", TRUE),
          PrintStmt("ds_progress") >>,
       \* 16: print(datacube.__version__)
       << [op |-> "print_version"] >> >>

CellIds == 1..Len(Cells)

DatasetNames ==
    {"ds", "ds_rgb", "ds_custom_crs", "ds_reprojected", "ds_averageresampling",
     "ds_customresampling", "ds_ls8", "ds_ls7", "ds_progress"}

\* The number of dc.load() calls a cell makes
LoadsIn(c) == Cardinality({i \in 1..Len(Cells[c]) : Cells[c][i].op = "load"})

----------------------------------------------------------------------------
(* The kernel                                                              *)

VARIABLES
    bound,    \* which of datacube, with_ui_cbk and dc are bound
    names,    \* the Dataset each result name is bound to (0: unbound)
    query,    \* the dictionary bound to query (NoQuery: unbound)
    store,    \* the objects dc.load() has returned, oldest first
    frames,   \* the dc.load() calls in progress
    pc,       \* the cell and statement being executed (cell 0: idle)
    out,      \* the outputs of the cell being run
    bar,      \* the progress bar of with_ui_cbk()
    queue     \* the cells Run All has queued, next first

vars == <<bound, names, query, store, frames, pc, out, bar, queue>>

Idle == [cell |-> 0, stmt |-> 0]

Init ==
    /\ bound = {}
    /\ names = [n \in DatasetNames |-> 0]
    /\ query = NoQuery
    /\ store = <<>>
    /\ frames = {}
    /\ pc = Idle
    /\ out = <<>>
    /\ bar = [n |-> 0, total |-> 0]
    /\ queue = <<>>

Running == pc.cell # 0 /\ pc.stmt <= Len(Cells[pc.cell])

Stmt == Cells[pc.cell][pc.stmt]

At(op) == Running /\ Stmt.op = op

\* The names a statement reads
Reads(stmt) ==
    IF stmt.op = "connect" \/ stmt.op = "print_version" THEN {"datacube"}
    ELSE IF stmt.op = "print" THEN {stmt.name}
    ELSE IF stmt.op = "print_nir" THEN {"ds"}
    ELSE IF stmt.op = "load"
    THEN {"dc"} \cup (IF stmt.unpack THEN {"query"} ELSE {})
                \cup (IF stmt.like # "none" THEN {stmt.like} ELSE {})
                \cup (IF stmt.cbk THEN {"with_ui_cbk"} ELSE {})
    ELSE {}

IsBound(n) ==
    IF n = "query" THEN ~Has(query, "unbound")
    ELSE IF n \in DatasetNames THEN names[n] # 0
    ELSE n \in bound

\* Variant: **query hands over the dictionary of the notebook's first
\* assignment to query, whatever is bound to the name at the call
CallArgsFirstQuery(stmt) ==
    LET a == IF stmt.unpack THEN Merge(stmt.kwargs, Query1) ELSE stmt.kwargs
        b == IF stmt.like # "none" THEN Merge(a, [like |-> names[stmt.like]]) ELSE a
    IN IF stmt.cbk THEN Merge(b, [progress_cbk |-> "with_ui_cbk"]) ELSE b

\* Variant: **query hands over x, y and time only, the other keys of the
\* dictionary are dropped
CallArgsCoreKeysOnly(stmt) ==
    LET core == [k \in (DOMAIN query) \cap {"x", "y", "time"} |-> query[k]]
        a == IF stmt.unpack THEN Merge(stmt.kwargs, core) ELSE stmt.kwargs
        b == IF stmt.like # "none" THEN Merge(a, [like |-> names[stmt.like]]) ELSE a
    IN IF stmt.cbk THEN Merge(b, [progress_cbk |-> "with_ui_cbk"]) ELSE b

\* The keyword arguments a load statement passes, with the bindings in
\* force when the call is made
CallArgs(stmt) ==
    LET a == IF stmt.unpack THEN Merge(stmt.kwargs, query) ELSE stmt.kwargs
        b == IF stmt.like # "none" THEN Merge(a, [like |-> names[stmt.like]]) ELSE a
    IN IF stmt.cbk THEN Merge(b, [progress_cbk |-> "with_ui_cbk"]) ELSE b

Next1(p) == [p EXCEPT !.stmt = @ + 1]

\* Variant: the call is handed off and the cell goes on
AfterCallNoWait(p) == Next1(p)

\* Where the kernel stands while a call it has made is in progress: a call
\* is synchronous, the statement waits for it
AfterCall(p) == p

\* The user runs cell c; the kernel takes one cell at a time
RunCell(c) ==
    /\ pc = Idle
    /\ queue = <<>>
    /\ Len(store) + Cardinality(frames) + LoadsIn(c) <= MaxLoads
    /\ pc' = [cell |-> c, stmt |-> 1]
    /\ out' = <<>>
    /\ UNCHANGED <<bound, names, query, store, frames, bar, queue>>

Import ==
    /\ At("import")
    /\ bound' = bound \cup {Stmt.name}
    /\ pc' = Next1(pc)
    /\ UNCHANGED <<names, query, store, frames, out, bar, queue>>

Connect ==
    /\ At("connect")
    /\ \A n \in Reads(Stmt) : IsBound(n)
    /\ bound' = bound \cup {"dc"}
    /\ pc' = Next1(pc)
    /\ UNCHANGED <<names, query, store, frames, out, bar, queue>>

AssignQuery ==
    /\ At("query")
    /\ query' = Stmt.value
    /\ pc' = Next1(pc)
    /\ UNCHANGED <<bound, names, store, frames, out, bar, queue>>

\* Variant: the call is handed the dictionary itself and empties it
LoadCallConsumesQuery ==
    /\ At("load")
    /\ ~\E f \in frames : f.cell = pc.cell /\ f.stmt = pc.stmt
    /\ \A n \in Reads(Stmt) : IsBound(n)
    /\ LET args == CallArgs(Stmt)
           plan == Plan(args, store)
       IN frames' = frames \cup
              {[cell |-> pc.cell, stmt |-> pc.stmt, target |-> Stmt.target,
                args |-> args, geobox |-> plan.geobox, steps |-> plan.steps,
                loaded |-> <<>>]}
    /\ IF Stmt.cbk
       THEN /\ bar' = [n |-> 0, total |-> 0]
            /\ out' = Append(out, [kind |-> "widget"])
       ELSE UNCHANGED <<bar, out>>
    /\ pc' = AfterCall(pc)
    /\ query' = IF Stmt.unpack THEN NoQuery ELSE query
    /\ UNCHANGED <<bound, names, store, queue>>

\* dc.load(...) is entered
LoadCall ==
    /\ At("load")
    /\ ~\E f \in frames : f.cell = pc.cell /\ f.stmt = pc.stmt
    /\ \A n \in Reads(Stmt) : IsBound(n)
    /\ LET args == CallArgs(Stmt)
           plan == Plan(args, store)
       IN frames' = frames \cup
              {[cell |-> pc.cell, stmt |-> pc.stmt, target |-> Stmt.target,
                args |-> args, geobox |-> plan.geobox, steps |-> plan.steps,
                loaded |-> <<>>]}
    /\ IF Stmt.cbk
       THEN /\ bar' = [n |-> 0, total |-> 0]
            /\ out' = Append(out, [kind |-> "widget"])
       ELSE UNCHANGED <<bar, out>>
    /\ pc' = AfterCall(pc)
    /\ UNCHANGED <<bound, names, query, store, queue>>

\* dc.load() reads one more time step and reports it to the callback
LoadSlice ==
    \E f \in frames :
        /\ ~Finished(f)
        /\ frames' = (frames \ {f}) \cup {[f EXCEPT !.loaded = ReadSlice(f)]}
        /\ IF Has(f.args, "progress_cbk")
           THEN bar' = [n |-> bar.n + 1, total |-> Len(f.steps)]
           ELSE UNCHANGED bar
        /\ UNCHANGED <<bound, names, query, store, pc, out, queue>>

\* dc.load() returns and the assignment binds its target
LoadReturn ==
    \E f \in frames :
        /\ Finished(f)
        /\ store' = Stored(store, f, Result(f))
        /\ names' = [names EXCEPT ![f.target] = Len(store')]
        /\ frames' = frames \ {f}
        /\ pc' = [cell |-> f.cell, stmt |-> f.stmt + 1]
        /\ UNCHANGED <<bound, query, out, bar, queue>>

PrintDataset ==
    /\ At("print")
    /\ \A n \in Reads(Stmt) : IsBound(n)
    /\ out' = Append(out, [kind |-> "dataset", ds |-> store[names[Stmt.name]].ds])
    /\ pc' = Next1(pc)
    /\ UNCHANGED <<bound, names, query, store, frames, bar, queue>>

PrintNir ==
    /\ At("print_nir")
    /\ \A n \in Reads(Stmt) : IsBound(n)
    /\ "nir" \in DOMAIN store[names["ds"]].ds.arrays
    /\ out' = Append(out, [kind |-> "dataarray", da |-> store[names["ds"]].ds.arrays["nir"]])
    /\ pc' = Next1(pc)
    /\ UNCHANGED <<bound, names, query, store, frames, bar, queue>>

PrintVersion ==
    /\ At("print_version")
    /\ \A n \in Reads(Stmt) : IsBound(n)
    /\ out' = Append(out, [kind |-> "text", text |-> "1.7+142.g7f8581cf"])
    /\ pc' = Next1(pc)
    /\ UNCHANGED <<bound, names, query, store, frames, bar, queue>>

\* A statement that reads an unbound name raises NameError: the traceback
\* is the cell's last output, the rest of the cell is skipped and the cells
\* still queued are dropped
NameError ==
    /\ Running
    /\ frames = {}
    /\ \E n \in Reads(Stmt) : ~IsBound(n)
    /\ out' = Append(out, [kind |-> "error", ename |-> "NameError"])
    /\ pc' = Idle
    /\ queue' = <<>>
    /\ UNCHANGED <<bound, names, query, store, frames, bar>>

\* The cell is done: its outputs go to the notebook and the kernel is idle
EndCell ==
    /\ pc.cell # 0
    /\ pc.stmt > Len(Cells[pc.cell])
    /\ frames = {}
    /\ pc' = Idle
    /\ out' = <<>>
    /\ UNCHANGED <<bound, names, query, store, frames, bar, queue>>

Next ==
    \/ \E c \in CellIds : RunCell(c)
    \/ Import
    \/ Connect
    \/ AssignQuery
    \/ LoadCall
    \/ LoadSlice
    \/ LoadReturn
    \/ PrintDataset
    \/ PrintNir
    \/ PrintVersion
    \/ NameError
    \/ EndCell

Spec == Init /\ [][Next]_vars

\* Run All on a fresh kernel, from the first cell or from a later one (Run
\* All Below): the cells from there to the last are queued in notebook
\* order
InitRunAll ==
    /\ bound = {}
    /\ names = [n \in DatasetNames |-> 0]
    /\ query = NoQuery
    /\ store = <<>>
    /\ frames = {}
    /\ pc = Idle
    /\ out = <<>>
    /\ bar = [n |-> 0, total |-> 0]
    /\ \E first \in CellIds :
           queue = [i \in 1..(Len(Cells) - first + 1) |-> first + i - 1]

\* The kernel takes the next queued cell
RunQueued ==
    /\ pc = Idle
    /\ queue # <<>>
    /\ pc' = [cell |-> Head(queue), stmt |-> 1]
    /\ queue' = Tail(queue)
    /\ out' = <<>>
    /\ UNCHANGED <<bound, names, query, store, frames, bar>>

NextRunAll ==
    \/ RunQueued
    \/ Import
    \/ Connect
    \/ AssignQuery
    \/ LoadCall
    \/ LoadSlice
    \/ LoadReturn
    \/ PrintDataset
    \/ PrintNir
    \/ PrintVersion
    \/ NameError
    \/ EndCell

SpecRunAll == InitRunAll /\ [][NextRunAll]_vars

----------------------------------------------------------------------------
(* Properties                                                              *)

\* The results returned so far, by their place in the object store
Ids == 1..Len(store)

\* The keyword arguments of a call without the keys in K
Without(q, K) == [k \in (DOMAIN q) \ K |-> q[k]]

\* The parameters of a call that fix its extent, time, CRS and pixel size
Footprint(q) == Without(q, {"product", "progress_cbk"})

PixelSize(e) == Abs(e.geobox.resolution[2])

\* C1: a load that supplies a measurements list M returns exactly the
\* data variables M: none of M is missing, nothing outside M is present.
C1_MeasurementsExact ==
    \A i \in Ids :
        LET e == store[i]
        IN Has(e.args, "measurements") =>
               /\ Range(e.args.measurements)
                      \subseteq Range(Products[e.args.product].measurements)
               /\ Range(e.ds.vars) = Range(e.args.measurements)
               /\ DOMAIN e.ds.arrays = Range(e.args.measurements)

C1_Witness ==
    \E i \in Ids :
        /\ Has(store[i].args, "measurements")
        /\ store[i].args.measurements = <<"red", "green", "blue">>
        /\ store[i].ds.vars = <<"red", "green", "blue">>

\* C2: a load that supplies no measurements list returns one data
\* variable for every measurement of the product (blue, green, red, nir,
\* swir1, swir2), whatever other parameters it is given.
C2_AllMeasurementsByDefault ==
    \A i \in Ids :
        LET e == store[i]
        IN ~Has(e.args, "measurements") =>
               /\ Range(e.ds.vars) = Range(Products[e.args.product].measurements)
               /\ DOMAIN e.ds.arrays = {"blue", "green", "red", "nir", "swir1", "swir2"}
               /\ Len(e.ds.vars) = 6

\* Loads without measurements but with output_crs and with one of like,
\* progress_cbk, crs and resampling have returned
C2_Witness ==
    /\ \E i \in Ids :
           /\ ~Has(store[i].args, "measurements")
           /\ Has(store[i].args, "output_crs")
           /\ Len(store[i].ds.vars) = 6
    /\ \E i \in Ids :
           /\ ~Has(store[i].args, "measurements")
           /\ \/ Has(store[i].args, "like")
              \/ Has(store[i].args, "progress_cbk")
              \/ Has(store[i].args, "crs")
              \/ Has(store[i].args, "resampling")

\* C3: the bounds of a load without crs are read in EPSG:4326, also when
\* output_crs is supplied and although the data is stored in EPSG:3577;
\* only crs changes the system the bounds are read in.
C3_DefaultQueryCRS ==
    \A i \in Ids :
        LET e == store[i]
        IN Has(e.args, "x") =>
               /\ ~Has(e.args, "crs") =>
                      /\ e.geobox.place = Locate(e.args.x, e.args.y, WGS84)
                      /\ e.geobox.place = "MoretonBay"
                      /\ e.ds.attrs.crs = Albers => e.ds.coords.x = <<20670, 20790>>
                      /\ e.ds.attrs.crs = UTM56S => e.ds.coords.x = <<5296, 5394>>
               /\ Has(e.args, "crs") =>
                      /\ e.geobox.place = Locate(e.args.x, e.args.y, e.args.crs)
                      /\ e.geobox.place = "MoretonBayAlbers"

C3_Witness ==
    /\ \E i \in Ids :
           /\ ~Has(store[i].args, "crs")
           /\ Has(store[i].args, "output_crs")
           /\ store[i].ds.attrs.crs = UTM56S
           /\ store[i].geobox.place = "MoretonBay"
    /\ \E i \in Ids : Has(store[i].args, "crs") /\ store[i].ds.dims.x = 311

\* C4: a load with output_crs = C and resolution = R returns a result whose
\* crs attribute is C and whose x and y pixel counts follow from R: over
\* the same extent a coarser pixel never gives more pixels on an axis than
\* a finer one (250 m: x 40, y 45; native 25 m: x 461, y 508).
C4_OutputCRSAndResolution ==
    /\ \A i \in Ids :
           LET e == store[i]
           IN /\ (Has(e.args, "output_crs") /\ Has(e.args, "resolution")) =>
                     /\ e.ds.attrs.crs = e.args.output_crs
                     /\ e.geobox.resolution = e.args.resolution
                     /\ (e.geobox.place = "MoretonBay" /\ e.args.output_crs = UTM56S
                         /\ e.args.resolution = <<-250, 250>>)
                            => e.ds.dims.x = 40 /\ e.ds.dims.y = 45
              /\ (~Has(e.args, "output_crs") /\ ~Has(e.args, "resolution")
                  /\ ~Has(e.args, "like") /\ e.geobox.place = "MoretonBay")
                     => e.ds.dims.x = 461 /\ e.ds.dims.y = 508
    /\ \A i, j \in Ids :
           LET e1 == store[i]
               e2 == store[j]
           IN e1.geobox.place = e2.geobox.place =>
                  /\ PixelSize(e1) > PixelSize(e2) =>
                         e1.ds.dims.x <= e2.ds.dims.x /\ e1.ds.dims.y <= e2.ds.dims.y
                  /\ (PixelSize(e1) = PixelSize(e2) /\ e1.geobox.crs = e2.geobox.crs) =>
                         e1.ds.dims.x = e2.ds.dims.x /\ e1.ds.dims.y = e2.ds.dims.y

\* A 250 m load in EPSG:32756 beside a native load of the same extent
C4_Witness ==
    \E i, j \in Ids :
        /\ Has(store[i].args, "output_crs") /\ Has(store[i].args, "resolution")
        /\ store[i].ds.attrs.crs = UTM56S
        /\ store[i].ds.dims.x = 40 /\ store[i].ds.dims.y = 45
        /\ ~Has(store[j].args, "resolution") /\ ~Has(store[j].args, "like")
        /\ store[j].geobox.place = store[i].geobox.place
        /\ store[j].ds.dims.x = 461 /\ store[j].ds.dims.y = 508

\* C5: a load with like = T returns a result with the time, x and y
\* dimensions and the CRS of T, and these are the dimensions of a load of
\* that product with the explicit parameters that produced T.
C5_LikeMatchesTemplate ==
    \A i \in Ids :
        Has(store[i].args, "like") =>
            LET e == store[i]
                T == store[e.args.like]
            IN /\ e.ds.dims = T.ds.dims
               /\ e.ds.coords = T.ds.coords
               /\ e.ds.attrs.crs = T.ds.attrs.crs
               /\ \A j \in Ids :
                      (/\ ~Has(store[j].args, "like")
                       /\ ~Has(T.args, "like")
                       /\ store[j].args.product = e.args.product
                       /\ Footprint(store[j].args) = Footprint(T.args))
                          => /\ store[j].ds.dims = e.ds.dims
                             /\ store[j].ds.attrs.crs = e.ds.attrs.crs

\* ds_ls8, the explicit load of Landsat 7 and the like load of Landsat 7
C5_Witness ==
    \E i, j \in Ids :
        /\ Has(store[i].args, "like")
        /\ store[i].args.product = LS7
        /\ store[store[i].args.like].args.product = LS8
        /\ store[i].ds.dims = [time |-> 1, x |-> 40, y |-> 45]
        /\ ~Has(store[j].args, "like")
        /\ store[j].args.product = LS7
        /\ Footprint(store[j].args) = Footprint(store[store[i].args.like].args)

\* C6: with a resampling mapping, a band named as a key is read with that
\* key's method and every other band with the method of "*"; with
\* {"red": "nearest", "*": "average"} only red is nearest-neighbour.
C6_PerBandResampling ==
    \A i \in Ids :
        (Has(store[i].args, "resampling") /\ Has(store[i].args.resampling, "bands")) =>
            LET e == store[i]
                m == e.args.resampling.bands
                others == Range(e.ds.vars) \ {"red"}
            IN /\ \A b \in Range(e.ds.vars) :
                      e.resampling[b] = IF b \in DOMAIN m THEN m[b] ELSE m["*"]
               /\ (m = ("red" :> "nearest") @@ ("*" :> "average")) =>
                      /\ e.resampling["red"] = "nearest"
                      /\ \A b \in others : e.resampling[b] = "average"
                      /\ e.ds.arrays["red"].values = <<224, 215, 201>>
                      /\ e.ds.arrays["blue"].values = <<467, 457, 450>>
                      /\ \A j \in Ids :
                             (/\ ~Has(store[j].args, "resampling")
                              /\ store[j].args.product = e.args.product
                              /\ store[j].geobox = e.geobox
                              /\ store[j].ds.coords = e.ds.coords)
                                 => /\ store[j].ds.arrays["red"].values
                                           = e.ds.arrays["red"].values
                                    /\ \A b \in others :
                                           store[j].ds.arrays[b].values
                                               # e.ds.arrays[b].values

\* ds_customresampling beside ds_reprojected
C6_Witness ==
    \E i, j \in Ids :
        /\ Has(store[i].args, "resampling") /\ Has(store[i].args.resampling, "bands")
        /\ store[i].resampling["red"] = "nearest"
        /\ store[i].resampling["nir"] = "average"
        /\ ~Has(store[j].args, "resampling")
        /\ store[j].args.product = store[i].args.product
        /\ store[j].geobox = store[i].geobox

\* C7: every load constructs a fresh result and a result already returned
\* is never changed afterwards, also not by a load that takes it as like.
C7_ResultsFreshAndFrozen ==
    [][/\ Len(store') >= Len(store)
       /\ \A i \in 1..Len(store) : store'[i] = store[i]
       /\ store' # store =>
              /\ Len(store') = Len(store) + 1
              /\ \A n \in DatasetNames :
                     names'[n] # names[n] => names'[n] = Len(store')
              /\ \A n \in DatasetNames :
                     names'[n] = Len(store') => names'[n] # names[n]]_vars

\* A like load has returned and its template is still the 40 x 45 result
\* of Landsat 8 it was returned as
C7_Witness ==
    \E i \in Ids :
        /\ Has(store[i].args, "like")
        /\ store[i].args.like < i
        /\ store[store[i].args.like].args.product = LS8
        /\ store[store[i].args.like].ds.dims = [time |-> 1, x |-> 40, y |-> 45]
        /\ store[i].args.product = LS7
        /\ names["ds_ls8"] = store[i].args.like
        /\ names["ds_ls7"] = i

\* C8: every data variable of a result is an array over (time, y, x) of
\* the result, has a nodata attribute and has the crs attribute of the
\* result.
C8_DataArraysMatchDataset ==
    /\ \A i \in Ids :
           LET ds == store[i].ds
           IN \A b \in Range(ds.vars) :
                  LET a == ds.arrays[b]
                  IN /\ a.dims = <<"time", "y", "x">>
                     /\ a.shape = <<ds.dims.time, ds.dims.y, ds.dims.x>>
                     /\ a.coords = ds.coords
                     /\ Has(a.attrs, "nodata")
                     /\ a.attrs.nodata = -999
                     /\ a.attrs.crs = ds.attrs.crs
    /\ \A k \in 1..Len(out) :
           out[k].kind = "dataarray" =>
               /\ out[k].da.attrs.nodata = -999
               /\ out[k].da.attrs.crs = store[names["ds"]].ds.attrs.crs

\* A reprojected result and a result in the product's own CRS
C8_Witness ==
    /\ \E i \in Ids : /\ store[i].ds.attrs.crs = UTM56S
                      /\ store[i].ds.arrays["blue"].attrs.crs = UTM56S
    /\ \E i \in Ids : /\ store[i].ds.attrs.crs = Albers
                      /\ store[i].ds.arrays["blue"].attrs.crs = Albers

\* C9: the loads are synchronous and single-threaded: at most one is in
\* progress, and the statements after a load of a cell begin only once it
\* has returned and bound its result.
C9_LoadsSynchronous ==
    /\ Cardinality(frames) <= 1
    /\ \A f \in frames : pc = [cell |-> f.cell, stmt |-> f.stmt]
    /\ pc.cell # 0 =>
           \A k \in 1..Len(Cells[pc.cell]) :
               (k < pc.stmt /\ Cells[pc.cell][k].op = "load") =>
                   /\ frames = {}
                   /\ names[Cells[pc.cell][k].target] # 0
                   /\ store[names[Cells[pc.cell][k].target]].args.product
                          = Cells[pc.cell][k].kwargs.product
    /\ \A k \in 1..Len(out) :
           (out[k].kind = "dataset" /\ pc.cell # 0 /\ pc.stmt > 1
            /\ Cells[pc.cell][pc.stmt - 1].op = "print")
               => out[k].ds = store[names[Cells[pc.cell][pc.stmt - 1].name]].ds

\* A load is partly done while earlier results exist
C9_Witness ==
    \E f \in frames :
        /\ Len(f.loaded) >= 1
        /\ ~Finished(f)
        /\ Len(store) >= 1
        /\ pc.cell = f.cell

C10_SameResult ==
    /\ \A i, j \in Ids :
           (/\ Has(store[i].args, "progress_cbk")
            /\ ~Has(store[j].args, "progress_cbk")
            /\ Without(store[i].args, {"progress_cbk"}) = store[j].args)
               => /\ store[i].ds = store[j].ds
                  /\ store[i].ds.dims = store[j].ds.dims
                  /\ store[i].ds.vars = store[j].ds.vars
                  /\ store[i].ds.attrs.crs = store[j].ds.attrs.crs
    /\ \A f \in frames : Has(f.args, "progress_cbk") => bar.n = Len(f.loaded)

C10_UpdateInsideCall ==
    /\ bar'.n > bar.n =>
           \E f \in frames :
               /\ Has(f.args, "progress_cbk")
               /\ ~Finished(f)
               /\ \E g \in frames' : g.cell = f.cell /\ g.stmt = f.stmt
               /\ store' = store
    /\ (bar' # bar /\ bar'.n <= bar.n) => frames = {} /\ frames' # {}
    /\ Len(store') > Len(store) =>
           \A f \in frames \ frames' :
               Has(f.args, "progress_cbk") => bar.n = Len(f.steps)

\* C10: progress_cbk only adds progress updates: each update happens
\* between the start and the return of the call, and the result is the
\* one the same query returns without progress_cbk.
C10_ProgressOnly == []C10_SameResult /\ [][C10_UpdateInsideCall]_vars

\* The five-year load with a progress bar and the same load without
C10_Witness ==
    \E i, j \in Ids :
        /\ Has(store[i].args, "progress_cbk")
        /\ Without(store[i].args, {"progress_cbk"}) = store[j].args
        /\ store[i].ds.dims = [time |-> 5, x |-> 461, y |-> 508]
        /\ bar = [n |-> 5, total |-> 5]

\* C11: the time range takes partial dates and includes both ends at the
\* precision given: a load returns one step for every year of the product
\* (2013 ... 2017) from the year of its start to the year of its end;
\* ("2013", "2017") returns the five steps 2013 ... 2017 of the annual
\* product, ("2015-01-01", "2015-12-31") the one step 2015.
C11_TimeRangeInclusive ==
    \A i \in Ids :
        LET e == store[i]
            t == e.args.time
            steps == e.ds.coords.time
            first == IF t[1][1] > 2013 THEN t[1][1] ELSE 2013
            last == IF t[2][1] < 2017 THEN t[2][1] ELSE 2017
        IN ~Has(e.args, "like") =>
               /\ Len(steps) = last - first + 1
               /\ \A k \in 1..Len(steps) : steps[k] = first + k - 1
               /\ e.ds.dims.time = Len(steps)
               /\ t = << <<2013>>, <<2017>> >> =>
                      /\ steps = <<2013, 2014, 2015, 2016, 2017>>
                      /\ e.ds.dims.time = 5
               /\ t = << <<2015, 1, 1>>, <<2015, 12, 31>> >> =>
                      /\ steps = <<2015>>
                      /\ e.ds.dims.time = 1

\* The five-year load and a load of 2015 have both returned
C11_Witness ==
    \E i, j \in Ids :
        /\ ~Has(store[i].args, "like")
        /\ store[i].args.time = << <<2013>>, <<2017>> >>
        /\ store[i].ds.dims.time = 5
        /\ ~Has(store[j].args, "like")
        /\ store[j].args.time = << <<2015, 1, 1>>, <<2015, 12, 31>> >>
        /\ store[j].ds.dims.time = 1

\* The arguments of the first load of the notebook
FirstLoadArgs ==
    [product |-> LS8, x |-> <<1533, 1534>>, y |-> <<-275, -276>>,
     time |-> << <<2015, 1, 1>>, <<2015, 12, 31>> >>]

ExplicitLoads ==
    {s \in UNION {Range(Cells[c]) : c \in CellIds} :
        s.op = "load" /\ ~s.unpack /\ s.like = "none"}

C13_SameResult ==
    /\ \A f \in frames :
           Cells[f.cell][f.stmt].unpack =>
               /\ DOMAIN f.args \ {"progress_cbk"} = DOMAIN query \cup {"product"}
               /\ f.args.product = Cells[f.cell][f.stmt].kwargs.product
               /\ \A k \in DOMAIN query : f.args[k] = query[k]
    /\ (names["ds_ls8"] # 0 /\ names["ds_reprojected"] # 0) =>
           LET u == store[names["ds_ls8"]]
               w == store[names["ds_reprojected"]]
           IN /\ u.args = w.args
              /\ u.ds.dims = w.ds.dims
              /\ u.ds.coords = w.ds.coords
              /\ u.ds.vars = w.ds.vars
              /\ u.ds.attrs.crs = w.ds.attrs.crs
              /\ \A b \in Range(w.ds.vars) :
                     u.ds.arrays[b].values = w.ds.arrays[b].values
    /\ \A s \in ExplicitLoads :
           (names[s.target] # 0 /\ store[names[s.target]].args = s.kwargs) =>
               \A i \in Ids :
                   (/\ i # names[s.target]
                    /\ store[i].args.product = s.kwargs.product
                    /\ Without(store[i].args, {"progress_cbk"}) = s.kwargs) =>
                       store[i].ds = store[names[s.target]].ds

\* A call with **query is entered with the product of the statement and
\* the keys of the dictionary bound to query, which it leaves as it is
C13_CallReceivesQuery ==
    \A f \in frames' \ frames :
        Cells[f.cell][f.stmt].unpack =>
            /\ query' = query
            /\ f.args.product = Cells[f.cell][f.stmt].kwargs.product
            /\ Without(f.args, {"product", "progress_cbk"}) = query
            /\ Has(query, "output_crs") => f.geobox.crs = query.output_crs
            /\ Has(query, "resolution") => f.geobox.resolution = query.resolution

\* C13: dc.load(product=P, **query) returns what the load with the same
\* parameters written as keyword arguments returns: the call receives the
\* keys of the dictionary as its keyword arguments, and the dimensions,
\* coordinates, data variables, values and CRS of the two results agree.
C13_UnpackedQueryAsKeywords ==
    []C13_SameResult /\ [][C13_CallReceivesQuery]_vars

\* ds_reprojected (keyword arguments) and ds_ls8 (**query) have returned
C13_Witness ==
    /\ names["ds_ls8"] # 0
    /\ names["ds_reprojected"] # 0
    /\ names["ds_ls8"] # names["ds_reprojected"]
    /\ store[names["ds_ls8"]].ds.dims = [time |-> 1, x |-> 40, y |-> 45]
    /\ store[names["ds_reprojected"]].ds.dims = [time |-> 1, x |-> 40, y |-> 45]

C14_SameFootprint ==
    \A i, j \in Ids :
        (/\ store[i].args.product # store[j].args.product
         /\ ~Has(store[i].args, "like")
         /\ ~Has(store[j].args, "like")
         /\ Footprint(store[i].args) = Footprint(store[j].args))
            => /\ store[i].ds.dims = store[j].ds.dims
               /\ store[i].ds.coords = store[j].ds.coords
               /\ store[i].ds.attrs.crs = store[j].ds.attrs.crs
               /\ store[i].geobox = store[j].geobox

C14_QueryKept ==
    /\ (frames # {} \/ frames' # {}) => query' = query
    /\ query' # query => At("query") /\ query' = Stmt.value

\* C14: one query dictionary serves several loads: two products loaded
\* with the same query have the same time, x and y dimensions, the same
\* coordinates and the same crs attribute, and no load changes the
\* dictionary.
C14_ReusableQuery == []C14_SameFootprint /\ [][C14_QueryKept]_vars

\* Landsat 8 and Landsat 7 have been loaded with the query that is still
\* bound
C14_Witness ==
    /\ names["ds_ls8"] # 0
    /\ names["ds_ls7"] # 0
    /\ ~Has(store[names["ds_ls7"]].args, "like")
    /\ query = Query2
    /\ Footprint(store[names["ds_ls8"]].args) = query
    /\ Footprint(store[names["ds_ls7"]].args) = query
    /\ store[names["ds_ls7"]].ds.dims = [time |-> 1, x |-> 40, y |-> 45]

\* C15: a load without resampling reads every band with nearest-neighbour
\* resampling: a band of it equals the same band of a load of the same
\* product, time, output CRS and resolution that names "nearest" for that
\* band (red of ds_reprojected is red of ds_customresampling), and differs
\* from a band that was averaged.
C15_DefaultResamplingNearest ==
    \A i \in Ids :
        ~Has(store[i].args, "resampling") =>
            /\ \A b \in Range(store[i].ds.vars) : store[i].resampling[b] = "nearest"
            /\ \A j \in Ids :
                   (/\ Has(store[j].args, "resampling")
                    /\ store[j].args.product = store[i].args.product
                    /\ store[j].geobox = store[i].geobox
                    /\ store[j].ds.coords = store[i].ds.coords) =>
                       \A b \in Range(store[i].ds.vars) \cap Range(store[j].ds.vars) :
                           /\ store[j].resampling[b] = "nearest" =>
                                  /\ store[i].ds.arrays[b].values
                                         = store[j].ds.arrays[b].values
                                  /\ store[i].ds.arrays[b].values # Unrecorded
                           /\ store[j].resampling[b] = "average" =>
                                  store[i].ds.arrays[b].values
                                      # store[j].ds.arrays[b].values
            /\ (names["ds_reprojected"] = i /\ names["ds_customresampling"] # 0) =>
                   /\ store[i].ds.arrays["red"].values = <<224, 215, 201>>
                   /\ store[names["ds_customresampling"]].ds.arrays["red"].values
                          = <<224, 215, 201>>

\* ds_reprojected (no resampling argument) beside ds_customresampling
\* (red: nearest)
C15_Witness ==
    /\ names["ds_reprojected"] # 0
    /\ names["ds_customresampling"] # 0
    /\ ~Has(store[names["ds_reprojected"]].args, "resampling")
    /\ store[names["ds_customresampling"]].args.resampling.bands["red"] = "nearest"
    /\ store[names["ds_reprojected"]].ds.arrays["red"].values = <<224, 215, 201>>

\* C17: resolution without output_crs changes the pixel grid only: the
\* result keeps the CRS of the product (EPSG:3577) on the dataset and on
\* every band, and the x and y pixel counts are those of the requested
\* pixel size (x: 47, y: 51 at 250 m) over the extent and time steps of
\* the load at the native pixel size.
C17_ResolutionKeepsNativeCRS ==
    \A i \in Ids :
        LET e == store[i]
        IN (/\ Has(e.args, "resolution")
            /\ ~Has(e.args, "output_crs")
            /\ ~Has(e.args, "like")) =>
               /\ e.ds.attrs.crs = Products[e.args.product].crs
               /\ e.args.product = LS8 => e.ds.attrs.crs = "EPSG:3577"
               /\ \A b \in Range(e.ds.vars) : e.ds.arrays[b].attrs.crs = e.ds.attrs.crs
               /\ e.geobox.resolution = e.args.resolution
               /\ (e.args.resolution = <<-250, 250>> /\ e.geobox.place = "MoretonBay") =>
                      e.ds.dims.x = 47 /\ e.ds.dims.y = 51
               /\ \A j \in Ids :
                      (/\ ~Has(store[j].args, "like")
                       /\ ~Has(store[j].args, "resolution")
                       /\ store[j].args.product = e.args.product
                       /\ Without(store[j].args, {"measurements", "progress_cbk"})
                              = Without(e.args, {"resolution", "resampling"})) =>
                          /\ store[j].ds.attrs.crs = e.ds.attrs.crs
                          /\ store[j].ds.coords = e.ds.coords
                          /\ store[j].ds.dims.time = e.ds.dims.time
                          /\ store[j].ds.dims.x = 461 /\ store[j].ds.dims.y = 508

\* ds_averageresampling beside a load of the same query at the native
\* pixel size
C17_Witness ==
    /\ names["ds_averageresampling"] # 0
    /\ store[names["ds_averageresampling"]].ds.dims = [time |-> 1, x |-> 47, y |-> 51]
    /\ store[names["ds_averageresampling"]].ds.attrs.crs = Albers
    /\ \E j \in Ids :
           /\ store[j].args = FirstLoadArgs
           /\ store[j].ds.dims.x = 461

\* Only cell 1 binds datacube: a run has begun at the first cell exactly
\* when the first cell is running or datacube is bound
FromFirstCell == pc.cell = 1 \/ "datacube" \in bound

C18_Bindings ==
    /\ (FromFirstCell /\ Running) => \A n \in Reads(Stmt) : IsBound(n)
    /\ FromFirstCell => \A k \in 1..Len(out) : out[k].kind # "error"
    /\ \A f \in frames :
           /\ FromFirstCell
           /\ Cells[f.cell][f.stmt].unpack =>
                  Without(f.args, {"product", "progress_cbk"}) = query
           /\ f.cell = 11 => Footprint(f.args) = Query1
           /\ f.cell = 12 => Footprint(f.args) = Query2
           /\ f.cell = 13 =>
                  /\ f.args.product = LS7
                  /\ Footprint(f.args) = Query2
                  /\ Footprint(f.args) # Query1
                  /\ f.args.output_crs = UTM56S
                  /\ f.args.resolution = <<-250, 250>>
           /\ f.cell = 14 =>
                  /\ f.args.like = names["ds_ls8"]
                  /\ store[f.args.like].args = Merge([product |-> LS8], Query2)
                  /\ store[f.args.like].ds.dims = [time |-> 1, x |-> 40, y |-> 45]
           /\ f.cell = 15 => Footprint(f.args) = Query3
    /\ names["ds_ls7"] # 0 =>
           /\ store[names["ds_ls7"]].args.product = LS7
           /\ store[names["ds_ls7"]].ds.dims = [time |-> 1, x |-> 40, y |-> 45]
           /\ store[names["ds_ls7"]].ds.attrs.crs = UTM56S
    /\ Len(store) >= 1 =>
           /\ store[1].args = FirstLoadArgs
           /\ store[1].ds.dims = [time |-> 1, x |-> 461, y |-> 508]
    /\ Len(store) >= 9 =>
           /\ store[9].args = Merge([product |-> LS7], Query2)
           /\ store[9].ds.dims = [time |-> 1, x |-> 40, y |-> 45]

C18_RebindKeepsResults ==
    /\ \A i \in 1..Len(store) : i <= Len(store') /\ store'[i] = store[i]
    /\ \A n \in DatasetNames :
           names'[n] # names[n] =>
               /\ names'[n] = Len(store')
               /\ Len(store') = Len(store) + 1
               /\ \A m \in DatasetNames \ {n} : names'[m] = names[m]

\* C18: in a run of the cells in notebook order, every name a statement
\* reads is bound when it is read, every load takes the bindings in force
\* at its call (the load of Landsat 7 with **query the query with
\* output_crs and resolution, the like load the ds_ls8 of that query), and
\* binding query, ds or ds_ls7 again changes no result returned before.
C18_NotebookOrderBindings == []C18_Bindings /\ [][C18_RebindKeepsResults]_vars

\* The whole notebook has run: ds and ds_ls7 have been bound twice and
\* query three times
C18_Witness ==
    /\ pc = Idle
    /\ queue = <<>>
    /\ Len(store) = 11
    /\ names["ds"] = 7
    /\ names["ds_ls8"] = 8
    /\ names["ds_ls7"] = 10
    /\ names["ds_progress"] = 11
    /\ query = Query3
    /\ store[10].args.like = 8

\* C19: for the same product, extent and time, the result of a load with
\* a measurements list has the dimensions, coordinates and CRS of the
\* result of the load without one, and every variable it keeps is the
\* array of that name of the full load, values included (red, green and
\* blue of ds_rgb are those of ds).
C19_NarrowingKeepsTheRest ==
    \A i \in Ids :
        Has(store[i].args, "measurements") =>
            \A j \in Ids :
                (/\ ~Has(store[j].args, "measurements")
                 /\ store[j].args.product = store[i].args.product
                 /\ Without(store[j].args, {"progress_cbk"})
                        = Without(store[i].args, {"measurements"})) =>
                    /\ store[i].ds.dims = store[j].ds.dims
                    /\ store[i].ds.coords = store[j].ds.coords
                    /\ store[i].ds.attrs = store[j].ds.attrs
                    /\ \A k \in 1..Len(store[i].ds.vars) :
                           LET b == store[i].ds.vars[k]
                           IN /\ b \in DOMAIN store[j].ds.arrays
                              /\ store[i].ds.arrays[b].values # Unrecorded
                              /\ store[i].ds.arrays[b] = store[j].ds.arrays[b]
                    /\ store[j].args = FirstLoadArgs =>
                           /\ store[i].ds.arrays["red"].values = <<248, 252, 252>>
                           /\ store[i].ds.arrays["green"].values = <<534, 538, 538>>
                           /\ store[i].ds.arrays["blue"].values = <<491, 490, 489>>

\* ds_rgb beside the load of all the bands of the same query
C19_Witness ==
    /\ names["ds_rgb"] # 0
    /\ store[names["ds_rgb"]].ds.vars = <<"red", "green", "blue">>
    /\ store[names["ds_rgb"]].ds.arrays["red"].values = <<248, 252, 252>>
    /\ \E j \in Ids :
           /\ store[j].args = FirstLoadArgs
           /\ Len(store[j].ds.vars) = 6

====
